---- MODULE Spec2Model ----
(***************************************************************************)
(* A model of the gedit pylint plugin (geditpylint.py): the GeditPylint    *)
(* object, the documents it tracks, the GtkTextBuffer tag tables it        *)
(* writes to, and the handlers gedit calls on it.                          *)
(*                                                                         *)
(* Strings are sequences of one-character strings, so that indexing,       *)
(* split() and int() are computed the way Python computes them.            *)
(***************************************************************************)
EXTENDS Integers, Sequences, FiniteSets, TLC

(***************************************************************************)
(* Bounds of the model.                                                    *)
(***************************************************************************)
MaxBody == 2        \* diagnostic-section lines of one tool output
MaxHeader == 1      \* banner lines before the '*' marker line
MaxLine == 3        \* largest line number the tool reports
MaxColumn == 2      \* largest column the tool reports
MaxText == 4        \* characters of a document text of the span resolution

Docs == {"A", "B"}

NoDoc == "none"

(***************************************************************************)
(* Python string helpers.                                                  *)
(***************************************************************************)
\* string.whitespace
Whitespace == {" ", "\t", "\n", "\r"}

DigitChars == <<"0", "1", "2", "3", "4", "5", "6", "7", "8", "9">>

\* str.split(sep) for a one-character separator
Split(s, sep) ==
  LET seps == {i \in 1..Len(s) : s[i] = sep}
      n == Cardinality(seps) + 1
      \* position of the k-th separator; 0 and Len(s) + 1 bound the string
      At(k) == IF k = 0 THEN 0
               ELSE IF k = n THEN Len(s) + 1
               ELSE CHOOSE i \in seps : Cardinality({j \in seps : j <= i}) = k
  IN [k \in 1..n |-> SubSeq(s, At(k - 1) + 1, At(k) - 1)]

\* '***' in message
HasThreeStars(m) ==
  \E i \in 1..(Len(m) - 2) : m[i] = "*" /\ m[i + 1] = "*" /\ m[i + 2] = "*"

\* str.strip() as int() applies it to its argument
Strip(s) ==
  LET keep == {i \in 1..Len(s) : s[i] \notin Whitespace}
  IN IF keep = {} THEN <<>>
     ELSE LET lo == CHOOSE i \in keep : \A j \in keep : i <= j
              hi == CHOOSE i \in keep : \A j \in keep : i >= j
          IN SubSeq(s, lo, hi)

\* int(s) raises ValueError unless s is a decimal literal
IsInt(s) ==
  LET t == Strip(s)
  IN Len(t) > 0 /\ \A i \in 1..Len(t) : \E k \in 1..10 : DigitChars[k] = t[i]

\* int(s) for a string int() accepts
ParseInt(s) ==
  LET t == Strip(s)
      RECURSIVE V(_, _)
      V(i, acc) ==
        IF i > Len(t) THEN acc
        ELSE V(i + 1, 10 * acc + ((CHOOSE k \in 1..10 : DigitChars[k] = t[i]) - 1))
  IN V(1, 0)

(***************************************************************************)
(* The GtkTextBuffer model.  A text is a sequence of characters, "\n" is   *)
(* the line terminator, and an iterator is a character offset 0..Len(t).   *)
(***************************************************************************)
\* characters Pango counts as part of a word
WordChars == {"a", "b", "x", "y", "1"}

\* what get_char() gives at the end iterator (gunichar 0)
Nul == "NUL"

\* Gtk.TextIter.get_char
GetChar(t, o) == IF o < Len(t) THEN t[o + 1] ELSE Nul

\* Gtk.TextIter.ends_line
EndsLine(t, o) == o >= Len(t) \/ t[o + 1] = "\n"

\* Gtk.TextBuffer.get_line_count
LineCount(t) == Cardinality({i \in 1..Len(t) : t[i] = "\n"}) + 1

\* offset of the first character of the 0-based line k
LineStart(t, k) ==
  IF k = 0 THEN 0
  ELSE CHOOSE o \in 1..Len(t) :
         /\ t[o] = "\n"
         /\ Cardinality({i \in 1..o : t[i] = "\n"}) = k

\* offset of the line terminator (or buffer end) of the line that holds o
LineEnd(t, o) == CHOOSE p \in o..Len(t) :
                   EndsLine(t, p) /\ \A q \in o..(p - 1) : ~EndsLine(t, q)

\* Gtk.TextIter.forward_to_line_end: an iterator already at a line end
\* moves to the end of the next line
ForwardToLineEnd(t, o) ==
  IF ~EndsLine(t, o) THEN LineEnd(t, o)
  ELSE IF o >= Len(t) THEN Len(t)
  ELSE LineEnd(t, o + 1)

\* Gtk.TextIter.forward_word_end: the next offset after o that ends a
\* word, on this line or a later one; the buffer end when there is none
ForwardWordEnd(t, o) ==
  LET ends == {p \in (o + 1)..Len(t) :
                 t[p] \in WordChars /\ (p = Len(t) \/ t[p + 1] \notin WordChars)}
  IN IF ends = {} THEN Len(t)
     ELSE CHOOSE p \in ends : \A q \in ends : p <= q

\* whether (line, column) names a position of the text
InBounds(t, line, column) ==
  /\ line >= 0
  /\ line < LineCount(t)
  /\ column <= LineEnd(t, LineStart(t, line)) - LineStart(t, line)

Abort == -1

\* Gtk.TextBuffer.get_iter_at_line_offset.  GTK+ 3.20 and later clamp an
\* invalid location (line past the last line: the end iterator; offset
\* past the line: the end of the line).  Before 3.20 an invalid location is
\* not allowed: a line past the last line is taken as the last line, and
\* an offset past the line ends the process in g_error.
GetIterAtLineOffset(t, line, column, clamps) ==
  LET last_line == LineCount(t) - 1
      past == line < 0 \/ line > last_line
  IN IF InBounds(t, line, column) THEN LineStart(t, line) + column
     ELSE IF clamps
     THEN IF past THEN Len(t) ELSE LineEnd(t, LineStart(t, line))
     ELSE IF past /\ InBounds(t, last_line, column)
     THEN LineStart(t, last_line) + column
     ELSE Abort

(***************************************************************************)
(* The plugin's constants (GeditPylint.__init__).                          *)
(***************************************************************************)
\* self.lint_color: Gdk.RGBA values in hundredths
lint_color ==
  [c \in {"F", "E", "W", "R", "C", "O"} |->
     CASE c = "F" -> <<100, 0, 0, 25>>
       [] c = "E" -> <<100, 50, 50, 25>>
       [] c = "W" -> <<100, 100, 50, 25>>
       [] c = "R" -> <<50, 100, 50, 25>>
       [] c = "C" -> <<50, 50, 100, 25>>
       [] c = "O" -> <<0, 0, 0, 50>>]

\* self.word_end_exceptions
word_end_exceptions == {"-", "_"}

\* outcome of the message-type test of lint_parse for which no tag is made
Ignore == <<>>

\* the choice of color without the test for the ignore type
ColorOfNoIgnore(ch) ==
  IF ch \in DOMAIN lint_color THEN lint_color[ch] ELSE lint_color["O"]

\* lint_parse's choice of color from the character after the bracket
ColorOf(ch) ==
  IF ch \in DOMAIN lint_color THEN lint_color[ch]
  ELSE IF ch = "I" THEN Ignore
  ELSE lint_color["O"]

(***************************************************************************)
(* Span resolution (the body of run_pylint's loop, and forward_to_char).   *)
(***************************************************************************)
RECURSIVE WordEndLoop(_, _)
\* while not end_iter.ends_line(): forward_word_end(); break unless the
\* character there is a word_end_exception
WordEndLoop(t, e) ==
  IF EndsLine(t, e) THEN e
  ELSE LET e2 == ForwardWordEnd(t, e)
       IN IF GetChar(t, e2) \notin word_end_exceptions THEN e2
          ELSE WordEndLoop(t, e2)

\* get_char() in string.whitespace: at the buffer end get_char() is the
\* empty string, which is in every string
InStringWhitespace(c) == c = Nul \/ c \in Whitespace

\* the trim without the limit: the first offset from start whose character
\* is not whitespace
forward_to_char_unlimited(t, start, limit) ==
  CHOOSE o \in start..Len(t) :
    /\ o = Len(t) \/ t[o + 1] \notin Whitespace
    /\ \A q \in start..(o - 1) : t[q + 1] \in Whitespace

RECURSIVE forward_to_char(_, _, _)
forward_to_char(t, start, limit) ==
  IF InStringWhitespace(GetChar(t, start)) /\ start < limit
  THEN forward_to_char(t, start + 1, limit)
  ELSE start

\* the end iterator of the whole line whatever the column
EndIterOfLine(t, start, column) == ForwardToLineEnd(t, start)

\* the end iterator run_pylint computes from the start iterator
EndIter(t, start, column) ==
  IF column = 0 THEN ForwardToLineEnd(t, start) ELSE WordEndLoop(t, start)

(***************************************************************************)
(* The tool's output.  pylint writes one line per message with the         *)
(* template {line}:{column}:[{msg_id} {symbol}] {msg} after a line of      *)
(* asterisks naming the module; the text is what proc.communicate() gives. *)
(***************************************************************************)
RECURSIVE Str(_)
\* str.format of a non-negative integer
Str(n) == IF n < 10 THEN <<DigitChars[n + 1]>>
          ELSE Str(n \div 10) \o <<DigitChars[(n % 10) + 1]>>

\* one message line as the --msg-template of run_pylint formats it
DiagLine(l, c, code) == Str(l) \o <<":">> \o Str(c) \o <<":", "[", code, "]">>

MarkerLine == <<"*", "*", "*", "*">>

RECURSIVE Join(_)
\* the lines of an output joined with newlines
Join(ls) == IF Len(ls) = 0 THEN <<>>
            ELSE IF Len(ls) = 1 THEN ls[1]
            ELSE ls[1] \o <<"\n">> \o Join(Tail(ls))

\* sequences over S of length at most n
SeqUpTo(S, n) == UNION {[1..k -> S] : k \in 0..n}

(***************************************************************************)
(* State.                                                                  *)
(***************************************************************************)
VARIABLES
  known_documents,  \* self.known_documents: list of documents
  saved_handlers,   \* per document: run_pylint handlers connected to 'saved'
  cursor_handlers,  \* per document: show_lint_message handlers connected
  mime,             \* per document: doc.get_mime_type()
  text,             \* per document: the buffer's text
  lint_messages,    \* self.lint_messages: dict in insertion order, as a
                    \* sequence of [tag, line, column, message]
  tags,             \* the live Gtk.TextTag objects: id -> [name, color, table]
  applied,          \* tagged ranges of the buffers: set of [tag, start, end]
  pushed,           \* messages the latest handler pushed on the status bar
  stderr,           \* whether the latest handler printed to sys.stderr
  exc,              \* exception the latest handler raised, or "none"
  alive,            \* FALSE once GTK has aborted the process
  clamps,           \* whether the GTK+ build clamps invalid locations (3.20)
  last,             \* the latest event and its inputs
  resolve           \* a span resolution of run_pylint taken one loop
                    \* iteration at a time: [pc, doc, column, start_iter,
                    \* end_iter, steps]

vars == <<known_documents, saved_handlers, cursor_handlers, mime, text,
          lint_messages, tags, applied, pushed, stderr, exc, alive, clamps,
          last, resolve>>

Mimes == {"text/plain", "text/x-python"}

\* a test of the mime type that every document passes
IsPythonAlways(m) == TRUE

\* 'python' in doc.get_mime_type()
IsPython(m) == m = "text/x-python"

\* no span resolution under way
Idle == [pc |-> "idle", doc |-> NoDoc, column |-> 0, start_iter |-> 0,
         end_iter |-> 0, steps |-> 0]

\* the documents' texts
TextOf == [d \in Docs |->
             IF d = "A" THEN <<" ", "x", "_", "y", "\n", "a", "b">>
             ELSE <<"a", " ", "b", "\n", "\n", " ">>]

\* the tag objects that are keys of a lint_messages dict
Keys(lm) == {lm[i].tag : i \in 1..Len(lm)}

\* the tags of document d's tag table
\* a tag table that never holds a tag
TagTableEmpty(tg, d) == {}

TagTable(tg, d) == {id \in DOMAIN tg : tg[id].table = d}

\* identity of a newly allocated tag object
FreshTag(tg) ==
  CHOOSE i \in 1..(Cardinality(DOMAIN tg) + 1) :
    i \notin DOMAIN tg /\ \A j \in 1..(i - 1) : j \in DOMAIN tg

\* Gtk.TextBuffer.create_tag (the PyGObject override): a new tag, added to
\* the buffer's tag table unless the table already has a tag of that name
CreateTag(tg, d, n, color) ==
  LET dup == \E j \in TagTable(tg, d) : tg[j].name = n
  IN [name |-> n, color |-> color, table |-> IF dup THEN NoDoc ELSE d]

(***************************************************************************)
(* lint_parse.                                                             *)
(***************************************************************************)
\* the header test of lint_parse: '*' == message[0] and '***' in message
IsMarker(message) == message[1] = "*" /\ HasThreeStars(message)

\* message is None or message is '' or message[0] in string.whitespace
IsSkipped(message) == Len(message) = 0 \/ message[1] \in Whitespace

\* the number in a tag's name taken from the message's line field
TagNumberOfLine(i, parts) == ParseInt(parts[1])

\* the number n of 'pylint-{}'.format(n) for the i-th line of the output:
\* the index enumerate() gives it, counted from 0
TagNumber(i, parts) == i - 1

RECURSIVE ParseLoop(_, _, _, _, _)
\* the for loop of lint_parse from the i-th line on; st is [lm, tags, exc]
\* and an exception ends the loop with what was stored so far
ParseLoop(d, lines, i, after_header, st) ==
  IF i > Len(lines) THEN st
  ELSE
    LET message == lines[i]
    IN IF ~after_header
       THEN IF Len(message) = 0 THEN [st EXCEPT !.exc = "IndexError"]
            ELSE ParseLoop(d, lines, i + 1, IsMarker(message), st)
       ELSE IF IsSkipped(message) THEN ParseLoop(d, lines, i + 1, TRUE, st)
       ELSE
         LET parts == Split(message, ":")
         IN IF Len(parts) # 3 THEN [st EXCEPT !.exc = "ValueError"]
            ELSE IF Len(parts[3]) < 2 THEN [st EXCEPT !.exc = "IndexError"]
            ELSE
              LET color == ColorOf(parts[3][2])
                  id == FreshTag(st.tags)
                  tag == CreateTag(st.tags, d, TagNumber(i, parts), color)
                  rec == [tag |-> id, line |-> parts[1],
                          column |-> parts[2], message |-> parts[3]]
              IN IF color = Ignore THEN ParseLoop(d, lines, i + 1, TRUE, st)
                 ELSE ParseLoop(d, lines, i + 1, TRUE,
                        [st EXCEPT !.tags = (id :> tag) @@ st.tags,
                                   !.lm = Append(st.lm, rec)])

\* lint_parse(document, messages): the dict is cleared (tag objects that
\* are in no tag table are freed with it) and refilled from the lines
lint_parse(d, messages, tg) ==
  LET held == {id \in DOMAIN tg : tg[id].table # NoDoc}
  IN ParseLoop(d, Split(messages, "\n"), 1, FALSE,
               [lm |-> <<>>, tags |-> [id \in held |-> tg[id]], exc |-> "none"])

(***************************************************************************)
(* run_pylint.                                                             *)
(***************************************************************************)
\* the exit status test with the boundary status 32 left out
ToolFailedAbove(returncode) == returncode > 32

\* proc.returncode >= 32
ToolFailed(returncode) == returncode >= 32

\* Gtk.TextBuffer.apply_tag: nothing is tagged when the tag is not in the
\* buffer's tag table or the range is empty
ApplyTag(ap, tg, d, id, start, end) ==
  IF tg[id].table = d /\ start # end
  THEN ap \cup {[tag |-> id,
                 start |-> IF start < end THEN start ELSE end,
                 end |-> IF start < end THEN end ELSE start]}
  ELSE ap

RECURSIVE ApplyLoop(_, _, _, _, _)
\* the loop over self.lint_messages.items() from the i-th item on; st is
\* [applied, exc, alive]
ApplyLoop(d, lm, i, tg, st) ==
  IF i > Len(lm) THEN st
  ELSE IF ~IsInt(lm[i].line) \/ ~IsInt(lm[i].column)
  THEN [st EXCEPT !.exc = "ValueError"]
  ELSE
    LET line == ParseInt(lm[i].line) - 1
        column == ParseInt(lm[i].column)
        start_iter == GetIterAtLineOffset(text[d], line, column, clamps)
        end_iter == EndIter(text[d], start_iter, column)
        trimmed == forward_to_char(text[d], start_iter, end_iter)
    IN IF start_iter = Abort
       THEN [st EXCEPT !.exc = "abort", !.alive = FALSE]
       ELSE ApplyLoop(d, lm, i + 1, tg,
              [st EXCEPT !.applied =
                 ApplyTag(st.applied, tg, d, lm[i].tag, trimmed, end_iter)])

\* run_pylint(document, error): the values of lint_messages, tags, applied,
\* stderr, exc and alive when the handler returns or raises
run_pylint(d, loc, res) ==
  LET same == [lm |-> lint_messages, tags |-> tags, applied |-> applied,
               stderr |-> FALSE, exc |-> "none", alive |-> TRUE]
      gone == Keys(lint_messages) \cap TagTable(tags, d)
      tg1 == [id \in DOMAIN tags |->
                IF id \in gone THEN [tags[id] EXCEPT !.table = NoDoc]
                ELSE tags[id]]
      ap1 == {a \in applied : a.tag \notin gone}
      parsed == lint_parse(d, res.output, tg1)
      done == ApplyLoop(d, parsed.lm, 1, parsed.tags,
                        [applied |-> ap1, exc |-> "none", alive |-> TRUE])
  IN IF loc = "nolocation" THEN [same EXCEPT !.exc = "AttributeError"]
     ELSE IF loc = "nopath" THEN same
     ELSE IF res.found /\ ToolFailed(res.returncode) THEN same
     ELSE IF ~res.found
     THEN [same EXCEPT !.tags = tg1, !.applied = ap1, !.stderr = TRUE,
                       !.exc = "UnboundLocalError"]
     ELSE IF parsed.exc # "none"
     THEN [same EXCEPT !.lm = parsed.lm, !.tags = parsed.tags,
                       !.applied = ap1, !.exc = parsed.exc]
     ELSE [same EXCEPT !.lm = parsed.lm, !.tags = parsed.tags,
                       !.applied = done.applied, !.exc = done.exc,
                       !.alive = done.alive]

(***************************************************************************)
(* Inputs of the handlers.                                                 *)
(***************************************************************************)
\* document.get_location(): None, a location without a local path, a path
Locations == {"nolocation", "nopath", "path"}

\* pylint's exit status: a bit set of message classes below 32, 32 on a
\* usage error
ReturnCodes == {0, 31, 32, 33}

\* message lines of the tool outputs of the editing session
DiagPool == {DiagLine(1, 0, "C"), DiagLine(MaxLine, MaxColumn, "W")}

\* tool outputs of the editing session: the marker line, at most one
\* message line and the final newline
Outputs ==
  {Join(<<MarkerLine>> \o body \o << <<>> >>) :
     body \in {<<>>} \cup {<<l>> : l \in DiagPool}}

\* message-type characters of the parsed outputs
CodeChars == {"F", "E", "W", "R", "C", "I", "O", "Z", "f"}

\* lines before the marker line: a banner line, and an empty line
HeaderPool == {<<"N", "o">>, <<>>}

\* lines after the marker line: messages in and out of the documents'
\* bounds, a source excerpt (it starts with a blank), a line of two fields
\* and a line of four fields
BodyPool ==
  {DiagLine(1, 0, "C"), DiagLine(MaxLine, MaxColumn, "W"),
   DiagLine(1, MaxColumn, "I"), DiagLine(MaxLine, 0, "Z"),
   <<" ", "x">>, <<"1", ":", "0">>,
   <<"s", ":", "1", ":", "0", ":", "[", "C", "]">>}

\* a message of every type at every position
CodeLines ==
  {DiagLine(l, c, code) : l \in {1, MaxLine}, c \in {0, MaxColumn}, code \in CodeChars}

\* the lines of the parsed outputs: banner lines, the marker line or none,
\* the message section, and the final newline or none
ParseLines ==
  {h \o m \o body \o nl :
     h \in SeqUpTo(HeaderPool, MaxHeader), m \in {<<>>, <<MarkerLine>>},
     body \in SeqUpTo(BodyPool, MaxBody) \cup {<<l>> : l \in CodeLines},
     nl \in {<<>>, << <<>> >>}}

\* tool results of a single analysis run with these outputs
ParseResults == {[found |-> TRUE, returncode |-> 0, output |-> Join(ls)] : ls \in ParseLines}

NotFound == [found |-> FALSE, returncode |-> 0, output |-> <<>>]

\* what subprocess.Popen and proc.communicate() give: FileNotFoundError, or
\* an exit status and the captured output
ToolResults == {NotFound} \cup [found : {TRUE}, returncode : ReturnCodes, output : Outputs]

\* how far run_pylint(d, loc, res) gets, and the inputs it has read by then
RunOf(d, loc, res) ==
  IF loc # "path" THEN [run |-> loc, returncode |-> 0, output |-> <<>>]
  ELSE IF ~res.found THEN [run |-> "notfound", returncode |-> 0, output |-> <<>>]
  ELSE IF ToolFailed(res.returncode)
  THEN [run |-> "failed", returncode |-> res.returncode, output |-> <<>>]
  ELSE [run |-> "parsed", returncode |-> res.returncode, output |-> res.output]

NoRun == [run |-> "none", returncode |-> 0, output |-> <<>>]

\* an event, the document and cursor offset it is about, its run, and
\* whether the run repeats the run of the event before it
Event(op, d, pos, run) ==
  [op |-> op, doc |-> d, pos |-> pos, run |-> run, again |-> FALSE]

(***************************************************************************)
(* Handlers.                                                               *)
(***************************************************************************)
\* the effect of run_pylint(d, ...), called for the event op, on the state
RunEffect(op, d, loc, res) ==
  LET r == run_pylint(d, loc, res)
  IN /\ lint_messages' = r.lm
     /\ tags' = r.tags
     /\ applied' = r.applied
     /\ stderr' = r.stderr
     /\ exc' = r.exc
     /\ alive' = r.alive
     /\ pushed' = <<>>
     /\ last' = [Event(op, d, 0, RunOf(d, loc, res)) EXCEPT
                   !.again = /\ last.doc = d
                             /\ last.run = RunOf(d, loc, res)
                             /\ last.run.run = "parsed"]

\* a handler that returns without doing anything
NoEffect(op, tab) ==
  /\ pushed' = <<>>
  /\ stderr' = FALSE
  /\ exc' = "none"
  /\ last' = Event(op, tab, 0, NoRun)
  /\ UNCHANGED <<known_documents, saved_handlers, cursor_handlers,
                 lint_messages, tags, applied, alive>>

\* tab_added(window, tab), called for the event op: tab is a document, or
\* NoDoc for no tab
tab_added(op, tab, loc, res) ==
  IF tab = NoDoc THEN NoEffect(op, tab)
  ELSE IF \E i \in 1..Len(known_documents) : known_documents[i] = tab
  THEN NoEffect(op, tab)
  ELSE IF ~IsPython(mime[tab]) THEN NoEffect(op, tab)
  ELSE /\ saved_handlers' = [saved_handlers EXCEPT ![tab] = @ + 1]
       /\ cursor_handlers' = [cursor_handlers EXCEPT ![tab] = @ + 1]
       /\ known_documents' = Append(known_documents, tab)
       /\ RunEffect(op, tab, loc, res)

\* the 'tab-added' signal of the window
TabAdded(tab, loc, res) ==
  /\ alive
  /\ tab_added("tab-added", tab, loc, res)
  /\ UNCHANGED <<mime, text, clamps, resolve>>

\* do_update_state: normal is tab.get_state() == STATE_NORMAL
DoUpdateState(tab, normal, loc, res) ==
  /\ alive
  /\ IF tab # NoDoc /\ normal
     THEN tab_added("update-state", tab, loc, res)
     ELSE NoEffect("update-state", tab)
  /\ UNCHANGED <<mime, text, clamps, resolve>>

\* the 'saved' signal of a document that run_pylint is connected to
Saved(d, loc, res) ==
  /\ alive
  /\ saved_handlers[d] > 0
  /\ RunEffect("saved", d, loc, res)
  /\ UNCHANGED <<known_documents, saved_handlers, cursor_handlers, mime,
                 text, clamps, resolve>>

\* iter.get_tags(): the tags that apply to the character at pos, in the
\* order of their creation
TagsAt(d, pos) ==
  LET S == {a.tag : a \in {b \in applied : tags[b.tag].table = d
                                          /\ b.start <= pos /\ pos < b.end}}
      RECURSIVE Sorted(_)
      Sorted(R) == IF R = {} THEN <<>>
                   ELSE LET m == CHOOSE x \in R : \A y \in R : x <= y
                        IN <<m>> \o Sorted(R \ {m})
  IN Sorted(S)

RECURSIVE ShowLoop(_, _, _)
\* the loop of show_lint_message over the tags at the cursor
ShowLoop(ts, i, st) ==
  IF i > Len(ts) THEN st
  ELSE IF ts[i] \notin Keys(lint_messages) THEN [st EXCEPT !.exc = "KeyError"]
  ELSE LET rec == CHOOSE r \in {lint_messages[k] : k \in 1..Len(lint_messages)} :
                    r.tag = ts[i]
       IN ShowLoop(ts, i + 1, [st EXCEPT !.pushed = Append(@, rec.message)])

\* show_lint_message(doc): the 'cursor-moved' signal with the cursor at pos
ShowLintMessage(d, pos) ==
  /\ alive
  /\ cursor_handlers[d] > 0
  /\ LET r == ShowLoop(TagsAt(d, pos), 1, [pushed |-> <<>>, exc |-> "none"])
     IN pushed' = r.pushed /\ exc' = r.exc
  /\ stderr' = FALSE
  /\ last' = Event("cursor-moved", d, pos, NoRun)
  /\ UNCHANGED <<known_documents, saved_handlers, cursor_handlers, mime,
                 text, lint_messages, tags, applied, alive, clamps, resolve>>

\* gedit changes the mime type of a document (the plugin reads the mime
\* type of a document only until the document is in known_documents)
SetMime(d, m) ==
  /\ alive
  /\ mime[d] # m
  /\ \A i \in 1..Len(known_documents) : known_documents[i] # d
  /\ mime' = [mime EXCEPT ![d] = m]
  /\ UNCHANGED <<known_documents, saved_handlers, cursor_handlers, text,
                 lint_messages, tags, applied, pushed, stderr, exc, alive,
                 clamps, last, resolve>>

Init ==
  /\ known_documents = <<>>
  /\ saved_handlers = [d \in Docs |-> 0]
  /\ cursor_handlers = [d \in Docs |-> 0]
  /\ mime \in [Docs -> Mimes]
  /\ text = TextOf
  /\ lint_messages = <<>>
  /\ tags = <<>>
  /\ applied = {}
  /\ pushed = <<>>
  /\ stderr = FALSE
  /\ exc = "none"
  /\ alive = TRUE
  /\ clamps \in BOOLEAN
  /\ last = Event("init", NoDoc, 0, NoRun)
  /\ resolve = Idle

Next ==
  \/ \E tab \in Docs \cup {NoDoc}, loc \in Locations, res \in ToolResults :
       TabAdded(tab, loc, res)
  \/ \E tab \in Docs \cup {NoDoc}, normal \in BOOLEAN, loc \in Locations,
        res \in ToolResults : DoUpdateState(tab, normal, loc, res)
  \/ \E d \in Docs, loc \in Locations, res \in ToolResults : Saved(d, loc, res)
  \/ \E d \in Docs : \E pos \in 0..Len(text[d]) : ShowLintMessage(d, pos)
  \/ \E d \in Docs, m \in Mimes : SetMime(d, m)

Spec == Init /\ [][Next]_vars

(***************************************************************************)
(* A single analysis run: the first lint of a newly opened Python          *)
(* document, over the parsed outputs.                                      *)
(***************************************************************************)
InitParse == Init /\ \A d \in Docs : IsPython(mime[d])

FirstLint(d, res) == known_documents = <<>> /\ TabAdded(d, "path", res)

NextParse == \E d \in Docs, res \in ParseResults : FirstLint(d, res)

SpecParse == InitParse /\ [][NextParse]_vars

(***************************************************************************)
(* Span resolution over document texts: the first lint of a newly opened   *)
(* Python document whose text is any short text, with one message.         *)
(***************************************************************************)
\* characters of the document texts: a word character, a blank, a word end
\* exception and the line terminator
TextChars == {"x", " ", "_", "\n"}

ResolveTexts == SeqUpTo(TextChars, MaxText)

\* tool results with one message at any reported position
ResolveResults ==
  {[found |-> TRUE, returncode |-> 0,
    output |-> Join(<<MarkerLine, DiagLine(l, c, "C"), <<>> >>)] :
     l \in 1..MaxLine, c \in 0..MaxColumn}

(***************************************************************************)
(* The scenario of a module sample.py: the module's header line, a         *)
(* Convention message at line 3, column 0 and a Warning message at line 5, *)
(* column 4, for a document of five lines.                                 *)
(***************************************************************************)
SampleHeader ==
  <<"*", "*", "*", "*", "*", "*", "*", "*", "*", "*", "*", "*", "*", " ",
    "M", "o", "d", "u", "l", "e", " ", "s", "a", "m", "p", "l", "e">>

\* the two messages as 'path:line:column: [msg_id] msg'
SampleLinesWithPath ==
  <<<<"s", "a", "m", "p", "l", "e", ".", "p", "y", ":", "3", ":", "0",
      ":", " ", "[", "C", "0", "1", "1", "4", "]", " ", "M", "i", "s",
      "s", "i", "n", "g", " ", "m", "o", "d", "u", "l", "e", " ", "d",
      "o", "c", "s", "t", "r", "i", "n", "g">>,
    <<"s", "a", "m", "p", "l", "e", ".", "p", "y", ":", "5", ":", "4",
      ":", " ", "[", "W", "0", "6", "1", "2", "]", " ", "U", "n", "u",
      "s", "e", "d", " ", "v", "a", "r", "i", "a", "b", "l", "e", " ",
      "'", "x", "'">>>>

\* the two messages as the template {line}:{column}:[{msg_id} {symbol}] {msg}
\* of run_pylint writes them
SampleLines ==
  <<<<"3", ":", "0", ":", "[", "C", "0", "1", "1", "4", " ", "m", "i",
      "s", "s", "i", "n", "g", "-", "m", "o", "d", "u", "l", "e", "-",
      "d", "o", "c", "s", "t", "r", "i", "n", "g", "]", " ", "M", "i",
      "s", "s", "i", "n", "g", " ", "m", "o", "d", "u", "l", "e", " ",
      "d", "o", "c", "s", "t", "r", "i", "n", "g">>,
    <<"5", ":", "4", ":", "[", "W", "0", "6", "1", "2", " ", "u", "n",
      "u", "s", "e", "d", "-", "v", "a", "r", "i", "a", "b", "l", "e",
      "]", " ", "U", "n", "u", "s", "e", "d", " ", "v", "a", "r", "i",
      "a", "b", "l", "e", " ", "'", "x", "'">>>>

SampleOutputWithPath == Join(<<SampleHeader>> \o SampleLinesWithPath \o << <<>> >>)

SampleOutput == Join(<<SampleHeader>> \o SampleLines \o << <<>> >>)

ScenarioResults ==
  {[found |-> TRUE, returncode |-> 0, output |-> o] :
     o \in {SampleOutputWithPath, SampleOutput}}

\* documents whose line 3 is 'a = 1' and whose line 5 is '    x = 1'
SampleTexts ==
  {Join(<<l1, l2, <<"a", " ", "=", " ", "1">>, l4,
          <<" ", " ", " ", " ", "x", " ", "=", " ", "1">> >>) :
     l1 \in {<<>>, <<"x">>}, l2 \in {<<>>, <<" ">>}, l4 \in {<<>>, <<"x", "_">>}}

InitResolve ==
  /\ known_documents = <<>>
  /\ saved_handlers = [d \in Docs |-> 0]
  /\ cursor_handlers = [d \in Docs |-> 0]
  /\ mime = [d \in Docs |-> "text/x-python"]
  /\ \E t \in ResolveTexts \cup SampleTexts : text = [d \in Docs |-> t]
  /\ lint_messages = <<>>
  /\ tags = <<>>
  /\ applied = {}
  /\ pushed = <<>>
  /\ stderr = FALSE
  /\ exc = "none"
  /\ alive = TRUE
  /\ clamps = TRUE
  /\ last = Event("init", NoDoc, 0, NoRun)
  /\ resolve = Idle

NextResolve ==
  \E res \in ResolveResults \cup ScenarioResults : FirstLint("A", res)

SpecResolve == InitResolve /\ [][NextResolve]_vars

(***************************************************************************)
(* The loops of the span resolution, one iteration per step, for a message *)
(* at any position inside the bounds of any short text.  steps counts the  *)
(* iterations.                                                             *)
(***************************************************************************)
\* lines 224-236: the start iterator, its copy, and forward_to_line_end
\* for column 0
BeginResolve(d, line, column) ==
  /\ resolve.pc = "idle"
  /\ InBounds(text[d], line, column)
  /\ LET s == LineStart(text[d], line) + column
     IN resolve' = [pc |-> IF column = 0 THEN "trim" ELSE "word",
                    doc |-> d, column |-> column, start_iter |-> s,
                    end_iter |-> IF column = 0 THEN ForwardToLineEnd(text[d], s)
                                 ELSE s,
                    steps |-> 0]
  /\ UNCHANGED <<known_documents, saved_handlers, cursor_handlers, mime, text,
                 lint_messages, tags, applied, pushed, stderr, exc, alive,
                 clamps, last>>

\* lines 240-243: the test of the while loop and one iteration of it
WordEndStep ==
  /\ resolve.pc = "word"
  /\ resolve.steps <= 2 * Len(text[resolve.doc])
  /\ LET t == text[resolve.doc]
         e2 == ForwardWordEnd(t, resolve.end_iter)
     IN IF EndsLine(t, resolve.end_iter)
        THEN resolve' = [resolve EXCEPT !.pc = "trim"]
        ELSE resolve' = [resolve EXCEPT
                           !.end_iter = e2,
                           !.steps = @ + 1,
                           !.pc = IF GetChar(t, e2) \notin word_end_exceptions
                                  THEN "trim" ELSE "word"]
  /\ UNCHANGED <<known_documents, saved_handlers, cursor_handlers, mime, text,
                 lint_messages, tags, applied, pushed, stderr, exc, alive,
                 clamps, last>>

\* the trim loop without the test against the limit: forward_char() at the
\* end of the buffer does not move
TrimStepUnlimited ==
  /\ resolve.pc = "trim"
  /\ resolve.steps <= 2 * Len(text[resolve.doc])
  /\ LET t == text[resolve.doc]
     IN IF InStringWhitespace(GetChar(t, resolve.start_iter))
        THEN resolve' = [resolve EXCEPT
                           !.start_iter = IF @ < Len(t) THEN @ + 1 ELSE @,
                           !.steps = @ + 1]
        ELSE resolve' = [resolve EXCEPT !.pc = "done"]
  /\ UNCHANGED <<known_documents, saved_handlers, cursor_handlers, mime, text,
                 lint_messages, tags, applied, pushed, stderr, exc, alive,
                 clamps, last>>

\* lines 323-325: the test of the while loop of forward_to_char and one
\* iteration of it
TrimStep ==
  /\ resolve.pc = "trim"
  /\ resolve.steps <= 2 * Len(text[resolve.doc])
  /\ LET t == text[resolve.doc]
     IN IF /\ InStringWhitespace(GetChar(t, resolve.start_iter))
           /\ resolve.start_iter < resolve.end_iter
        THEN resolve' = [resolve EXCEPT !.start_iter = @ + 1, !.steps = @ + 1]
        ELSE resolve' = [resolve EXCEPT !.pc = "done"]
  /\ UNCHANGED <<known_documents, saved_handlers, cursor_handlers, mime, text,
                 lint_messages, tags, applied, pushed, stderr, exc, alive,
                 clamps, last>>

NextLoop ==
  \/ \E line \in 0..(MaxLine - 1), column \in 0..MaxColumn :
       BeginResolve("A", line, column)
  \/ WordEndStep
  \/ TrimStep

SpecLoop == InitResolve /\ [][NextLoop]_vars

(***************************************************************************)
(* Properties.                                                             *)
(***************************************************************************)
\* the highlights of document d: the tagged ranges of its buffer
HighlightsOf(d) == {a \in applied : tags[a.tag].table = d}

\* the stored records of document d: those whose tag is in d's tag table
RecordsOf(d) ==
  {lint_messages[i] : i \in {k \in 1..Len(lint_messages) :
                               tags[lint_messages[k].tag].table = d}}

\* C1: a cursor-moved event at an offset covered by diagnostic highlights
\* finds a stored record for every such highlight and pushes that record's
\* message; the lookup never fails.
C1_CursorFindsRecord ==
  last.op = "cursor-moved" =>
    LET ts == TagsAt(last.doc, last.pos)
    IN /\ exc # "KeyError"
       /\ Len(pushed) = Len(ts)
       /\ \A i \in 1..Len(ts) :
            \E k \in 1..Len(lint_messages) :
              lint_messages[k].tag = ts[i] /\ pushed[i] = lint_messages[k].message

\* C2: after an analysis run of a document that parsed the tool output, the
\* tags of the document's tag table are exactly the keys of the stored
\* records, and every highlight of the document is one of this run: no tag
\* or highlight of an earlier run survives.
C2_RunRebuildsDocument ==
  (last.run.run = "parsed" /\ exc = "none") =>
    /\ TagTable(tags, last.doc) = Keys(lint_messages)
    /\ \A a \in HighlightsOf(last.doc) : a.tag \in Keys(lint_messages)

\* C3: an analysis run on one document leaves the records and the
\* highlights of every other document unchanged.
C3_OtherDocumentUnchanged ==
  [][\A d \in Docs :
       (last'.run.run \in {"notfound", "failed", "parsed"} /\ last'.doc # d) =>
         (RecordsOf(d)' = RecordsOf(d) /\ HighlightsOf(d)' = HighlightsOf(d))]_vars

\* C4: a run that does not find the tool executable prints to the error
\* stream, raises no exception, and changes no tag table, no highlight and
\* no stored record.
C4_ToolMissingIsGraceful ==
  [][last'.run.run = "notfound" =>
       (stderr' /\ exc' = "none" /\ UNCHANGED <<lint_messages, tags, applied>>)]_vars

\* C5: a run whose tool exits with status 32 or greater leaves the tag
\* tables, the highlights and the stored records as they were: the output
\* is not parsed.
C5_FailedToolChangesNothing ==
  [][(last'.run.run \in {"failed", "parsed"} /\ last'.run.returncode >= 32) =>
       UNCHANGED <<lint_messages, tags, applied>>]_vars

\* C5 witness: the tool has failed on a document that has a highlight and a
\* stored record
C5_Witness ==
  /\ last.run.run = "failed"
  /\ last.run.returncode >= 32
  /\ HighlightsOf(last.doc) # {}
  /\ RecordsOf(last.doc) # {}

\* the lines of the output the latest run parsed
OutLines == Split(last.run.output, "\n")

\* the i-th line begins with '*' and contains '***'
MarkerAt(ls, i) == Len(ls[i]) > 0 /\ ls[i][1] = "*" /\ HasThreeStars(ls[i])

HasMarker(ls) == \E i \in 1..Len(ls) : MarkerAt(ls, i)

\* index of the first marker line
FirstMarker(ls) ==
  CHOOSE i \in 1..Len(ls) : MarkerAt(ls, i) /\ \A j \in 1..(i - 1) : ~MarkerAt(ls, j)

\* a valid diagnostic line: line:column:[code...] with a code that is not
\* suppressed
ValidDiag(l) ==
  /\ Len(l) > 0
  /\ l[1] \notin Whitespace
  /\ LET p == Split(l, ":")
     IN /\ Len(p) = 3
        /\ IsInt(p[1])
        /\ IsInt(p[2])
        /\ Len(p[3]) >= 2
        /\ p[3][2] # "I"

\* C6: for an output with any lines (empty ones included) before the first
\* marker line, followed by K valid diagnostic lines, the parse yields
\* exactly K records, one per line after the marker in their order.
C6_HeaderSkipped ==
  LET ls == OutLines
      m == FirstMarker(ls)
      K == Cardinality({i \in (m + 1)..Len(ls) : ValidDiag(ls[i])})
  IN (/\ last.run.run = "parsed"
      /\ HasMarker(ls)
      /\ \A i \in (m + 1)..Len(ls) :
           ValidDiag(ls[i]) \/ (i = Len(ls) /\ ls[i] = <<>>))
     => /\ Len(lint_messages) = K
        /\ \A i \in 1..Len(lint_messages) :
             /\ i <= K
             /\ lint_messages[i].message = Split(ls[m + i], ":")[3]

\* C7: for an output in which no line is a marker line, the parse raises
\* nothing and yields no record.
C7_NoMarkerNoRecords ==
  (last.run.run = "parsed" /\ ~HasMarker(OutLines)) =>
    (exc = "none" /\ lint_messages = <<>>)

\* C8: a line after the marker that does not split into three fields is
\* skipped on its own: the records are those of the valid diagnostic lines
\* after the marker, all of them.
C8_MalformedLineSkipped ==
  LET ls == OutLines
      m == FirstMarker(ls)
      valid == {i \in (m + 1)..Len(ls) : ValidDiag(ls[i])}
  IN (/\ last.run.run = "parsed"
      /\ HasMarker(ls)
      /\ \A i \in 1..m : ls[i] # <<>>)
     => /\ Len(lint_messages) = Cardinality(valid)
        /\ {tags[lint_messages[k].tag].name : k \in 1..Len(lint_messages)}
             = {i - 1 : i \in valid}

\* C9: in a run with a diagnostic outside the document's bounds, the run
\* is not aborted, the diagnostic outside the bounds has no highlight, and
\* every diagnostic inside the bounds has the highlight of its span.
C9_OutOfBoundsSkipped ==
  LET t == text[last.doc]
      Line(k) == ParseInt(lint_messages[k].line) - 1
      Column(k) == ParseInt(lint_messages[k].column)
      In(k) == InBounds(t, Line(k), Column(k))
      Start(k) == LineStart(t, Line(k)) + Column(k)
      End(k) == EndIter(t, Start(k), Column(k))
      Trim(k) == forward_to_char(t, Start(k), End(k))
  IN (/\ last.run.run = "parsed"
      /\ exc \in {"none", "abort"}
      /\ \E k \in 1..Len(lint_messages) : ~In(k))
     => /\ alive
        /\ \A k \in 1..Len(lint_messages) :
             IF In(k)
             THEN Trim(k) < End(k) =>
                    [tag |-> lint_messages[k].tag, start |-> Trim(k), end |-> End(k)]
                      \in applied
             ELSE \A a \in applied : a.tag # lint_messages[k].tag

\* C10: classification is total and fixed: a record's tag has the color of
\* Fatal, Error, Warning, Refactor, Convention for the codes F, E, W, R, C
\* and the color of Other for every other code; a line with code I yields
\* no record and a line with any other code yields one.
C10_ClassificationTotal ==
  LET Expected(ch) ==
        CASE ch = "F" -> <<100, 0, 0, 25>>
          [] ch = "E" -> <<100, 50, 50, 25>>
          [] ch = "W" -> <<100, 100, 50, 25>>
          [] ch = "R" -> <<50, 100, 50, 25>>
          [] ch = "C" -> <<50, 50, 100, 25>>
          [] OTHER -> <<0, 0, 0, 50>>
      ls == OutLines
      m == FirstMarker(ls)
  IN last.run.run = "parsed" =>
       /\ \A k \in 1..Len(lint_messages) :
            /\ lint_messages[k].message[2] # "I"
            /\ tags[lint_messages[k].tag].color = Expected(lint_messages[k].message[2])
       /\ (/\ HasMarker(ls)
           /\ \A i \in 1..m : ls[i] # <<>>
           /\ m < Len(ls)
           /\ ls[m + 1] \in CodeLines
           /\ \A i \in (m + 2)..Len(ls) : ls[i] = <<>>)
          => Len(lint_messages) = IF Split(ls[m + 1], ":")[3][2] = "I" THEN 0 ELSE 1

\* C10 witness: a message with an unrecognized code has a record whose tag
\* has the color of Other
C10_Witness ==
  /\ last.run.run = "parsed"
  /\ \E k \in 1..Len(lint_messages) :
       /\ lint_messages[k].message[2] = "Z"
       /\ tags[lint_messages[k].tag].color = <<0, 0, 0, 50>>

(***************************************************************************)
(* The span of the k-th record in the document of the last run, resolved   *)
(* as run_pylint resolves it.                                              *)
(***************************************************************************)
RecLine(k) == ParseInt(lint_messages[k].line) - 1

RecColumn(k) == ParseInt(lint_messages[k].column)

RecIn(k) == InBounds(text[last.doc], RecLine(k), RecColumn(k))

RecStart(k) == LineStart(text[last.doc], RecLine(k)) + RecColumn(k)

RecEnd(k) == EndIter(text[last.doc], RecStart(k), RecColumn(k))

RecTrim(k) == forward_to_char(text[last.doc], RecStart(k), RecEnd(k))

\* C11: after a run that parsed the tool output, no record has the code I,
\* and every record inside the document's bounds whose span is not empty
\* has exactly one highlight in the document, with the color of Other when
\* its code is not one of F, E, W, R, C.
C11_OneHighlightPerDiagnostic ==
  (last.run.run = "parsed" /\ exc = "none") =>
    \A k \in 1..Len(lint_messages) :
      /\ lint_messages[k].message[2] # "I"
      /\ (RecIn(k) /\ RecTrim(k) < RecEnd(k)) =>
           /\ Cardinality({a \in HighlightsOf(last.doc) :
                             a.tag = lint_messages[k].tag}) = 1
           /\ lint_messages[k].message[2] \notin {"F", "E", "W", "R", "C"}
                => tags[lint_messages[k].tag].color = <<0, 0, 0, 50>>

\* C12: every span handed to apply_tag has its start at or before its end
\* after the trim: for a record inside the document's bounds the trimmed
\* start is between the resolved start and the end, only whitespace lies
\* between the resolved start and the trimmed start, and the highlight of
\* a span that is not empty is that span.
C12_TrimWithinSpan ==
  last.run.run = "parsed" =>
    /\ \A a \in applied : a.start <= a.end
    /\ \A k \in 1..Len(lint_messages) :
         RecIn(k) =>
           /\ RecStart(k) <= RecTrim(k)
           /\ RecTrim(k) <= RecEnd(k)
           /\ \A o \in RecStart(k)..(RecTrim(k) - 1) :
                text[last.doc][o + 1] \in Whitespace
           /\ RecTrim(k) < RecEnd(k) =>
                [tag |-> lint_messages[k].tag,
                 start |-> RecTrim(k), end |-> RecEnd(k)] \in applied

\* C12 witness: the trim advanced and was stopped by the end of the span
\* with whitespace still ahead
C12_Witness ==
  /\ last.run.run = "parsed"
  /\ \E k \in 1..Len(lint_messages) :
       /\ RecIn(k)
       /\ RecStart(k) < RecTrim(k)
       /\ RecTrim(k) = RecEnd(k)
       /\ GetChar(text[last.doc], RecEnd(k)) \in Whitespace

\* the offset of the first character of line k that is not whitespace, the
\* end of the line when it has none
FirstNonBlank(t, k) ==
  LET ls == LineStart(t, k)
      le == LineEnd(t, ls)
  IN CHOOSE o \in ls..le :
       /\ o = le \/ t[o + 1] \notin Whitespace
       /\ \A q \in ls..(o - 1) : t[q + 1] \in Whitespace

\* C13: for a record with column 0 inside the document's bounds, the span
\* ends at the end of the record's own line, before its line terminator,
\* and starts at the first character of that line that is not whitespace;
\* empty lines and lines of whitespace only included.
C13_WholeLineSpan ==
  last.run.run = "parsed" =>
    \A k \in 1..Len(lint_messages) :
      (RecIn(k) /\ RecColumn(k) = 0) =>
        LET t == text[last.doc]
        IN /\ RecEnd(k) = LineEnd(t, LineStart(t, RecLine(k)))
           /\ RecTrim(k) = FirstNonBlank(t, RecLine(k))
           /\ RecTrim(k) < RecEnd(k) =>
                [tag |-> lint_messages[k].tag,
                 start |-> RecTrim(k), end |-> RecEnd(k)] \in applied

\* offset p ends a word that no word end exception follows
StopsWord(t, p) ==
  /\ p >= 1
  /\ t[p] \in WordChars
  /\ p = Len(t) \/ t[p + 1] \notin WordChars
  /\ GetChar(t, p) \notin word_end_exceptions

\* C14: for a record with a column above 0 inside the document's bounds,
\* the end of the span is not beyond the end of the record's own line, and
\* it is the first offset after the start that ends a word with neither
\* '-' nor '_' after it, or the end of the line when the line has no such
\* offset or the start is at the end of the line.
C14_WordSpanWithinLine ==
  last.run.run = "parsed" =>
    \A k \in 1..Len(lint_messages) :
      (RecIn(k) /\ RecColumn(k) > 0) =>
        LET t == text[last.doc]
            le == LineEnd(t, RecStart(k))
            stops == {p \in (RecStart(k) + 1)..le : StopsWord(t, p)}
        IN /\ RecEnd(k) <= le
           /\ RecEnd(k) = IF stops = {} THEN le
                          ELSE CHOOSE p \in stops : \A q \in stops : p <= q

\* C15: the names of the tags created by one run are pairwise distinct,
\* also when several messages are on the same line of the source.
C15_NamesDistinct ==
  last.run.run = "parsed" =>
    \A j, k \in 1..Len(lint_messages) :
      j # k => tags[lint_messages[j].tag].name # tags[lint_messages[k].tag].name

\* C15 witness: a run stored two records for the same line of the source
C15_Witness ==
  /\ last.run.run = "parsed"
  /\ \E j, k \in 1..Len(lint_messages) :
       /\ j # k
       /\ lint_messages[j].line = lint_messages[k].line
       /\ tags[lint_messages[j].tag].name # tags[lint_messages[k].tag].name

\* what the scenario says of the run: two records, the first at line 3,
\* column 0 with the color of Convention and the whole line 3 as its span,
\* the second at line 5, column 4 with the color of Warning and the 'x' of
\* line 5 as its span
ScenarioHolds ==
  LET t == text[last.doc]
  IN /\ exc = "none"
     /\ Len(lint_messages) = 2
     /\ lint_messages[1].line = <<"3">>
     /\ lint_messages[1].column = <<"0">>
     /\ tags[lint_messages[1].tag].color = <<50, 50, 100, 25>>
     /\ lint_messages[2].line = <<"5">>
     /\ lint_messages[2].column = <<"4">>
     /\ tags[lint_messages[2].tag].color = <<100, 100, 50, 25>>
     /\ applied =
          {[tag |-> lint_messages[1].tag,
            start |-> LineStart(t, 2), end |-> LineStart(t, 2) + 5],
           [tag |-> lint_messages[2].tag,
            start |-> LineStart(t, 4) + 4, end |-> LineStart(t, 4) + 5]}
     /\ GetChar(t, LineStart(t, 4) + 4) = "x"

OffsetsOf(d) == {<<a.start, a.end>> : a \in HighlightsOf(d)}

\* C17: a run that repeats the run before it, on the same unmodified
\* document with the same tool output, leaves the document with highlights
\* at the same start and end offsets as before, and as many: none is
\* duplicated, lost or shifted.
C17_RerunIdempotent ==
  [][last'.again =>
       /\ OffsetsOf(last.doc)' = OffsetsOf(last.doc)
       /\ Cardinality(HighlightsOf(last.doc))' = Cardinality(HighlightsOf(last.doc))
       /\ exc' = exc]_vars

\* C17 witness: a repeated run left highlights in the document
C17_Witness ==
  /\ last.again
  /\ exc = "none"
  /\ HighlightsOf(last.doc) # {}

\* document d is in known_documents
Known(d) == \E i \in 1..Len(known_documents) : known_documents[i] = d

\* C18: over any sequence of events known_documents never holds a document
\* twice and a document has at most one 'saved' and at most one
\* 'cursor-moved' handler, exactly when it is in known_documents; a
\* document enters known_documents only while its mime type contains
\* 'python', and a tab-added event for a document that is not yet known
\* and whose mime type contains 'python' registers it.
C18_RegisteredOnce ==
  [][/\ \A i, j \in 1..Len(known_documents') :
          known_documents'[i] = known_documents'[j] => i = j
     /\ \A d \in Docs :
          /\ saved_handlers'[d] = IF Known(d)' THEN 1 ELSE 0
          /\ cursor_handlers'[d] = IF Known(d)' THEN 1 ELSE 0
          /\ (~Known(d) /\ Known(d)') => mime[d] = "text/x-python"
          /\ (/\ ~Known(d)
              /\ mime[d] = "text/x-python"
              /\ last'.op = "tab-added"
              /\ last'.doc = d
              /\ last' # last) => Known(d)'
          /\ Known(d) => Known(d)']_vars

\* C18 witness: both documents are registered, each once, and a later
\* update-state event for a registered document did nothing
C18_Witness ==
  /\ known_documents = <<"A", "B">>
  /\ saved_handlers = [d \in Docs |-> 1]
  /\ cursor_handlers = [d \in Docs |-> 1]
  /\ last.op = "update-state"
  /\ last.doc = "B"
  /\ last.run.run = "none"

\* C19: after a run that parsed the tool output, the tag table of the
\* run's document holds no other tag with the name of a tag the run
\* created: the name was free when the run created its tag, whatever runs
\* came before on this and on other documents.
C19_NameFreeWhenCreated ==
  last.run.run = "parsed" =>
    \A k \in 1..Len(lint_messages) :
      \A j \in TagTable(tags, last.doc) :
        j # lint_messages[k].tag => tags[j].name # tags[lint_messages[k].tag].name

\* what is left to the two loops: the end iterator cannot pass the end of
\* the buffer and the start iterator cannot pass the end iterator
Variant(r) ==
  2 * (Len(text[r.doc]) - r.end_iter) + (r.end_iter - r.start_iter)

\* C20: every iteration of the word end loop moves the end iterator
\* forward and every iteration of the trim loop moves the start iterator
\* forward, the start never passes the end and the end never passes the
\* end of the buffer; the iterations therefore number at most twice the
\* length of the text, for every text and every position inside its
\* bounds.
C20_LoopsTerminate ==
  [][resolve'.steps # resolve.steps =>
       /\ resolve'.start_iter <= resolve'.end_iter
       /\ resolve'.end_iter <= Len(text[resolve.doc])
       /\ IF resolve.pc = "word"
          THEN /\ resolve'.end_iter > resolve.end_iter
               /\ resolve'.start_iter = resolve.start_iter
          ELSE /\ resolve'.start_iter > resolve.start_iter
               /\ resolve'.end_iter = resolve.end_iter
       /\ Variant(resolve') < Variant(resolve)
       /\ resolve'.steps + Variant(resolve') <= 2 * Len(text[resolve.doc])]_vars

\* C20 witness: a resolution from a column above 0 is done after two or
\* more iterations, with the end iterator at the end of the buffer
C20_Witness ==
  /\ resolve.pc = "done"
  /\ resolve.column > 0
  /\ resolve.steps >= 2
  /\ resolve.end_iter = Len(text[resolve.doc])

====
